---------------------------- MODULE Spec2Model ----------------------------
(***************************************************************************)
(* Model of the stomp-local-agent connection relay:                        *)
(*   AgentWebSocket (page)  <- window messages ->  content script (bridge) *)
(*   content script  <- chrome.runtime Port ->  background service worker  *)
(*   background: WebSocketManager + WSConnection + browser WebSocket       *)
(*                                                                         *)
(* Client c (an AgentWebSocket) sends exactly one WS_OPEN, for which the   *)
(* content script creates exactly one Port, on which the background        *)
(* creates at most one WSConnection.  The index c therefore names the      *)
(* adapter, its Port, and the WSConnection object bound to that Port; the  *)
(* id under which the manager registers the object is a separate value.    *)
(***************************************************************************)
EXTENDS Integers, Sequences, FiniteSets, TLC

\* ------------------------------------------------------------------ bounds
NClients == 2
MaxNow == 1
MaxInflight == 1
MaxFaults == 1
MaxRestarts == 1

\* ------------------------------------------------------- program constants
MAX_RECONNECT_ATTEMPTS == 10
MAX_RECONNECT_DELAY_MS == 30000
BASE_RECONNECT_DELAY_MS == 1000
DEFAULT_CLOSE_CODE == 1000
ABNORMAL_CLOSE_CODE == 1006
NO_STATUS_CLOSE_CODE == 1005
CUSTOM_CLOSE_CODE == 4001

Clients == 1..NClients
\* Connection ids: 0..MaxNow are the ids "stomp-local-agent-" + Date.now(),
\* MaxNow + c is the connectionId that adapter c drew from crypto.randomUUID().
Ids == 0..(MaxNow + NClients)
Null == -1

\* AgentWebSocket.readyState values
CONNECTING == 0
OPEN == 1
CLOSING == 2
CLOSED == 3
NotConstructed == -2

VARIABLES
  \* page: AgentWebSocket instances
  readyState,        \* [Clients -> {NotConstructed, 0, 1, 2, 3}]
  messageHandler,    \* [Clients -> BOOLEAN]  window listener attached
  url,               \* [Clients -> Urls \cup {UrlJunk}]  AgentWebSocket.url
  sendResult,        \* outcome of the send() call made by the last step, "none" if it made none
  callback,          \* the on* callback the last step invoked: [client, name], NoCallback if none
  reqQ,              \* [Clients -> Seq(msg)]  window messages page -> content script
  evQ,               \* [Clients -> Seq(msg)]  window messages content script -> page
  pageAlive,         \* the page (and its content script) still exists
  \* content script
  csConnections,     \* [Clients -> BOOLEAN]  connections.has(connectionId)
  toBG,              \* [Clients -> Seq(msg)]  Port messages content script -> background
  toCS,              \* [Clients -> Seq(msg)]  Port messages background -> content script
  \* background
  portOpen,          \* [Clients -> {"none","open","closed"}] the Port as the background sees it
  activeConnectionId,\* [Clients -> Ids \cup {Null}]  closure variable of onConnect
  connections,       \* [Ids -> Clients \cup {Null}]  WebSocketManager.connections
  alarm,             \* the keepalive alarm exists
  conn,              \* [Clients -> WSConnection record]
  ws,                \* [Clients -> browser WebSocket of the WSConnection: [rs, code]]
  now,               \* last value Date.now() returned
  \* environment budget and history
  faults,            \* transport faults the network may still produce
  inflightCap,       \* messages that may be under way at once (fixed by Init)
  restarts,          \* times the browser may still terminate the service worker
  nClose,            \* [Clients -> Nat] WS_EVENT_CLOSE messages the background posted on the Port
  abnormalRun        \* [Clients -> Nat] consecutive abnormal closes handled since the last open

vars == <<readyState, messageHandler, url, sendResult, callback, reqQ, evQ, pageAlive,
          csConnections, toBG, toCS, portOpen, activeConnectionId, connections,
          alarm, conn, ws, now, faults, inflightCap, restarts, nClose, abnormalRun>>

pageVars == <<readyState, messageHandler, url, reqQ, evQ, pageAlive>>
csVars == <<csConnections, toBG>>
bgVars == <<toCS, portOpen, activeConnectionId, connections, alarm, conn, ws, now,
            faults, inflightCap, restarts, nClose, abnormalRun>>

\* ----------------------------------------------------------------- helpers
Min(a, b) == IF a <= b THEN a ELSE b

RECURSIVE Pow2(_)
Pow2(n) == IF n = 0 THEN 1 ELSE 2 * Pow2(n - 1)

IsPrefix(p, s) == Len(p) <= Len(s) /\ SubSeq(s, 1, Len(p)) = p

\* URLs the page may pass to new AgentWebSocket(url).  A URL is the result of
\* new URL(url): whether it parses, its protocol and hostname, and whether it
\* carries a fragment (which the WebSocket constructor rejects).
UrlChat == [parses |-> TRUE, protocol |-> "ws:", hostname |-> "localhost", port |-> "8080", fragment |-> FALSE]
UrlHttp == [parses |-> TRUE, protocol |-> "http:", hostname |-> "127.0.0.1", port |-> "", fragment |-> FALSE]
UrlWss == [parses |-> TRUE, protocol |-> "wss:", hostname |-> "localhost", port |-> "8080", fragment |-> FALSE]
UrlFrag == [parses |-> TRUE, protocol |-> "ws:", hostname |-> "localhost", port |-> "8080", fragment |-> TRUE]
UrlEvil == [parses |-> TRUE, protocol |-> "ws:", hostname |-> "evil.example.com", port |-> "", fragment |-> FALSE]
UrlJunk == [parses |-> FALSE, protocol |-> "", hostname |-> "", port |-> "", fragment |-> FALSE]
Urls == {UrlChat, UrlHttp, UrlWss, UrlFrag, UrlEvil, UrlJunk}
\* close(code): 0 stands for an omitted code
CloseCodes == {0, CUSTOM_CLOSE_CODE}

ALLOWED_ORIGINS == { <<"http:", "//", "localhost">>, <<"http:", "//", "127.0.0.1">>,
                     <<"ws:", "//", "localhost">>, <<"ws:", "//", "127.0.0.1">> }

\* Variant: any URL that parses is let through.
isAllowedUrl_anyHost(u) == u.parses

\* Variant: only the host is compared, not the scheme.
isAllowedUrl_hostOnly(u) ==
  u.parses /\ \E allowed \in ALLOWED_ORIGINS : u.hostname = allowed[3]

\* The callback of ALLOWED_ORIGINS.some(...).
originAllowed(origin, allowed) ==
  origin = allowed \/ IsPrefix(allowed \o <<":">>, origin)

\* `${parsed.protocol}//${parsed.hostname}`: the port is not part of it.
Origin(u) == <<u.protocol, "//", u.hostname>>

isAllowedUrl(u) ==
  IF ~u.parses THEN FALSE
  ELSE \E allowed \in ALLOWED_ORIGINS : originAllowed(Origin(u), allowed)

\* Variant: the first retry waits the base delay.
reconnectDelay_fromBase(attempt) ==
  Min(BASE_RECONNECT_DELAY_MS * Pow2(attempt - 1), MAX_RECONNECT_DELAY_MS)

reconnectDelay(attempt) ==
  Min(BASE_RECONNECT_DELAY_MS * Pow2(attempt), MAX_RECONNECT_DELAY_MS)

\* ---------------------------------------------------------------- messages
Msg(t) == [type |-> t, connectionId |-> Null, url |-> UrlJunk, code |-> 0, reason |-> "",
           wasClean |-> FALSE, attempt |-> 0, delay |-> 0, maxAttempts |-> 0]
\* this.connectionId of adapter c, and a window message that carries it.
Uuid(c) == MaxNow + c
PageReq(c, m) == [m EXCEPT !.connectionId = Uuid(c)]
OpenReq(u) == [Msg("WS_OPEN") EXCEPT !.url = u]
SendReq == Msg("WS_SEND")
CloseReq(code, reason) == [Msg("WS_CLOSE") EXCEPT !.code = code, !.reason = reason]
EvOpen == Msg("WS_EVENT_OPEN")
EvReconnected == Msg("WS_EVENT_RECONNECTED")
EvMessage == Msg("WS_EVENT_MESSAGE")
EvError(text) == [Msg("WS_EVENT_ERROR") EXCEPT !.reason = text]
EvClose(code, reason, wasClean) ==
  [Msg("WS_EVENT_CLOSE") EXCEPT !.code = code, !.reason = reason, !.wasClean = wasClean]
EvReconnecting(attempt, delay, maxAttempts) ==
  [Msg("WS_EVENT_RECONNECTING") EXCEPT !.attempt = attempt, !.delay = delay,
                                       !.maxAttempts = maxAttempts]

\* The on* property of adapter c that the message handler calls.
NoCallback == [client |-> 0, name |-> "none"]
Invoked(c, name) == [client |-> c, name |-> name]

\* Messages on their way: requests page -> background, events background -> page.
RECURSIVE QueuedUpTo(_, _)
QueuedUpTo(q, n) == IF n = 0 THEN 0 ELSE Len(q[n]) + QueuedUpTo(q, n - 1)
ReqInflight == QueuedUpTo(reqQ, NClients) + QueuedUpTo(toBG, NClients)
EvInflight == QueuedUpTo(toCS, NClients) + QueuedUpTo(evQ, NClients)

\* ------------------------------------------------- WSConnection (background)
NoConn == [id |-> Null, url |-> UrlJunk, socket |-> FALSE, status |-> "NONE",
           reconnectAttempts |-> 0, maxReconnect |-> MAX_RECONNECT_ATTEMPTS,
           heartbeatTimer |-> FALSE, reconnectTimer |-> FALSE, shouldReconnect |-> TRUE]
NewConn(id, u) == [NoConn EXCEPT !.id = id, !.url = u, !.status = "IDLE"]
NoSocket == [rs |-> "NONE", code |-> 0]

\* The background state the WSConnection and WebSocketManager methods update,
\* threaded through them as a record B.
BgState == [conn |-> conn, ws |-> ws, toCS |-> toCS, connections |-> connections,
            alarm |-> alarm, nClose |-> nClose, abnormalRun |-> abnormalRun]

\* socket.close(code) on the browser WebSocket of connection k.
SocketClose(B, k, code) ==
  LET s == B.ws[k]
  IN  [B EXCEPT !.ws[k] =
        IF s.rs = "OPEN" THEN [rs |-> "CLOSING", code |-> code]
        ELSE IF s.rs = "CONNECTING" THEN [rs |-> "ABORTING", code |-> ABNORMAL_CLOSE_CODE]
        ELSE s]

stopHeartbeat(B, k) == [B EXCEPT !.conn[k].heartbeatTimer = FALSE]
startHeartbeat(B, k) == [stopHeartbeat(B, k) EXCEPT !.conn[k].heartbeatTimer = TRUE]
clearReconnectTimer(B, k) == [B EXCEPT !.conn[k].reconnectTimer = FALSE]

\* Variant: destroy() leaves a pending reconnect timer in place.
destroy_keepsReconnectTimer(B, k) ==
  LET B1 == stopHeartbeat([B EXCEPT !.conn[k].shouldReconnect = FALSE], k)
      B2 == IF B1.conn[k].socket
            THEN [SocketClose(B1, k, NO_STATUS_CLOSE_CODE) EXCEPT !.conn[k].socket = FALSE]
            ELSE B1
  IN  [B2 EXCEPT !.conn[k].status = "CLOSED"]

destroy(B, k) ==
  LET B1 == [B EXCEPT !.conn[k].shouldReconnect = FALSE]
      B2 == clearReconnectTimer(stopHeartbeat(B1, k), k)
      B3 == IF B2.conn[k].socket
            THEN [SocketClose(B2, k, NO_STATUS_CLOSE_CODE) EXCEPT !.conn[k].socket = FALSE]
            ELSE B2
  IN  [B3 EXCEPT !.conn[k].status = "CLOSED"]

\* this.port.postMessage(msg); a disconnected Port throws and the catch destroys.
Send(B, k, msg) ==
  IF portOpen[k] = "open"
  THEN [B EXCEPT !.toCS[k] = Append(@, msg),
                 !.nClose[k] = IF msg.type = "WS_EVENT_CLOSE" THEN @ + 1 ELSE @]
  ELSE destroy(B, k)

\* new WebSocket(wsUrl) throws a SyntaxError for a URL with a fragment.
ConstructorThrows(u) == u.fragment

connect(B, k) ==
  LET B1 == IF B.conn[k].socket
            THEN [SocketClose(B, k, NO_STATUS_CLOSE_CODE) EXCEPT !.conn[k].socket = FALSE]
            ELSE B
      B2 == [B1 EXCEPT !.conn[k].status = "CONNECTING"]
  IN  IF ConstructorThrows(B2.conn[k].url)
      THEN Send(B2, k, EvError("constructor threw"))
      ELSE [B2 EXCEPT !.conn[k].socket = TRUE,
                      !.ws[k] = [rs |-> "CONNECTING", code |-> 0]]

\* Variant: reconnect() without the ceiling test.
reconnect_noCeiling(B, k) ==
  LET B1 == [B EXCEPT !.conn[k].reconnectAttempts = @ + 1,
                      !.conn[k].status = "RECONNECTING"]
      a  == B1.conn[k].reconnectAttempts
      B2 == Send(B1, k, EvReconnecting(a, reconnectDelay(a), B1.conn[k].maxReconnect))
  IN  [B2 EXCEPT !.conn[k].reconnectTimer = TRUE]

\* Variant: the ceiling test is > where the code has >=.
reconnect_strictCeiling(B, k) ==
  IF B.conn[k].reconnectAttempts > B.conn[k].maxReconnect
  THEN Send([B EXCEPT !.conn[k].status = "CLOSED"], k,
            EvClose(ABNORMAL_CLOSE_CODE, "Max reconnect attempts reached", FALSE))
  ELSE LET B1 == [B EXCEPT !.conn[k].reconnectAttempts = @ + 1,
                           !.conn[k].status = "RECONNECTING"]
           a  == B1.conn[k].reconnectAttempts
           B2 == Send(B1, k, EvReconnecting(a, reconnectDelay(a), B1.conn[k].maxReconnect))
       IN  [B2 EXCEPT !.conn[k].reconnectTimer = TRUE]

\* Variant: the reconnecting event carries the counter as it was before the
\* increment.
reconnect_announcesPriorCount(B, k) ==
  IF B.conn[k].reconnectAttempts >= B.conn[k].maxReconnect
  THEN Send([B EXCEPT !.conn[k].status = "CLOSED"], k,
            EvClose(ABNORMAL_CLOSE_CODE, "Max reconnect attempts reached", FALSE))
  ELSE LET a  == B.conn[k].reconnectAttempts
           B1 == [B EXCEPT !.conn[k].reconnectAttempts = @ + 1,
                           !.conn[k].status = "RECONNECTING"]
           B2 == Send(B1, k, EvReconnecting(a, reconnectDelay(a), B1.conn[k].maxReconnect))
       IN  [B2 EXCEPT !.conn[k].reconnectTimer = TRUE]

reconnect(B, k) ==
  IF B.conn[k].reconnectAttempts >= B.conn[k].maxReconnect
  THEN Send([B EXCEPT !.conn[k].status = "CLOSED"], k,
            EvClose(ABNORMAL_CLOSE_CODE, "Max reconnect attempts reached", FALSE))
  ELSE LET B1 == [B EXCEPT !.conn[k].reconnectAttempts = @ + 1,
                           !.conn[k].status = "RECONNECTING"]
           a  == B1.conn[k].reconnectAttempts
           B2 == Send(B1, k, EvReconnecting(a, reconnectDelay(a), B1.conn[k].maxReconnect))
       IN  [B2 EXCEPT !.conn[k].reconnectTimer = TRUE]

\* Variant: onopen does not reset the attempt counter.
onopen_keepsAttempts(B, k) ==
  LET B1 == startHeartbeat([B EXCEPT !.conn[k].status = "OPEN", !.abnormalRun[k] = 0], k)
  IN  IF B1.conn[k].reconnectAttempts > 0
      THEN Send(B1, k, EvReconnected)
      ELSE Send(B1, k, EvOpen)

onopen(B, k) ==
  LET B1 == startHeartbeat([B EXCEPT !.conn[k].status = "OPEN", !.abnormalRun[k] = 0], k)
  IN  IF B1.conn[k].reconnectAttempts > 0
      THEN Send([B1 EXCEPT !.conn[k].reconnectAttempts = 0], k, EvReconnected)
      ELSE Send(B1, k, EvOpen)

onmessage(B, k) == Send(B, k, EvMessage)

\* Variant: an error makes the Connection give up reconnecting.
onerror_stopsReconnect(B, k) ==
  Send([B EXCEPT !.conn[k].shouldReconnect = FALSE], k, EvError("WebSocket error occurred"))

onerror(B, k) == Send(B, k, EvError("WebSocket error occurred"))

\* Variant: onclose leaves the heartbeat timer running.
onclose_keepsHeartbeat(B, k, code, wasClean) ==
  LET B1 == [B EXCEPT !.conn[k].socket = FALSE]
  IN  IF B1.conn[k].shouldReconnect /\ ~wasClean
      THEN reconnect([B1 EXCEPT !.abnormalRun[k] = @ + 1], k)
      ELSE Send([B1 EXCEPT !.conn[k].status = "CLOSED"], k, EvClose(code, "", wasClean))

\* Variant: onclose reconnects after a clean close as well.
onclose_reconnectsWhenClean(B, k, code, wasClean) ==
  LET B1 == [stopHeartbeat(B, k) EXCEPT !.conn[k].socket = FALSE]
  IN  IF B1.conn[k].shouldReconnect
      THEN reconnect([B1 EXCEPT !.abnormalRun[k] = @ + 1], k)
      ELSE Send([B1 EXCEPT !.conn[k].status = "CLOSED"], k, EvClose(code, "", wasClean))

onclose(B, k, code, wasClean) ==
  LET B1 == [stopHeartbeat(B, k) EXCEPT !.conn[k].socket = FALSE]
  IN  IF B1.conn[k].shouldReconnect /\ ~wasClean
      THEN reconnect([B1 EXCEPT !.abnormalRun[k] = @ + 1], k)
      ELSE Send([B1 EXCEPT !.conn[k].status = "CLOSED"], k, EvClose(code, "", wasClean))

connSend(B, k) ==
  IF ~B.conn[k].socket \/ B.ws[k].rs # "OPEN"
  THEN Send(B, k, EvError("WebSocket is not open"))
  ELSE B

\* Variant: close() does not cancel a pending reconnect timer.
close_keepsReconnectTimer(B, k, code, reason) ==
  LET B1 == [B EXCEPT !.conn[k].shouldReconnect = FALSE]
      B2 == stopHeartbeat(B1, k)
      B3 == IF B2.conn[k].socket
            THEN [SocketClose(B2, k, code) EXCEPT !.conn[k].socket = FALSE]
            ELSE B2
  IN  Send([B3 EXCEPT !.conn[k].status = "CLOSED"], k, EvClose(code, reason, TRUE))

\* Variant: close() leaves shouldReconnect set.
close_keepsShouldReconnect(B, k, code, reason) ==
  LET B2 == clearReconnectTimer(stopHeartbeat(B, k), k)
      B3 == IF B2.conn[k].socket
            THEN [SocketClose(B2, k, code) EXCEPT !.conn[k].socket = FALSE]
            ELSE B2
  IN  Send([B3 EXCEPT !.conn[k].status = "CLOSED"], k, EvClose(code, reason, TRUE))

close(B, k, code, reason) ==
  LET B1 == [B EXCEPT !.conn[k].shouldReconnect = FALSE]
      B2 == clearReconnectTimer(stopHeartbeat(B1, k), k)
      B3 == IF B2.conn[k].socket
            THEN [SocketClose(B2, k, code) EXCEPT !.conn[k].socket = FALSE]
            ELSE B2
  IN  Send([B3 EXCEPT !.conn[k].status = "CLOSED"], k, EvClose(code, reason, TRUE))

\* ------------------------------------------------ WebSocketManager
Size(B) == Cardinality({i \in Ids : B.connections[i] # Null})

ensureKeepalive(B) == IF Size(B) > 0 THEN [B EXCEPT !.alarm = TRUE] ELSE B
\* Variant: the alarm is never cleared.
checkKeepalive_never(B) == B
checkKeepalive(B) == IF Size(B) = 0 THEN [B EXCEPT !.alarm = FALSE] ELSE B

\* Variant: connect() overwrites a registered id without destroying its holder.
managerConnect_noDestroy(B, id, u, p) ==
  LET B2 == [B EXCEPT !.conn[p] = NewConn(id, u), !.connections[id] = p,
                      !.abnormalRun[p] = 0]
  IN  ensureKeepalive(connect(B2, p))

managerConnect(B, id, u, p) ==
  LET B1 == IF B.connections[id] # Null THEN destroy(B, B.connections[id]) ELSE B
      B2 == [B1 EXCEPT !.conn[p] = NewConn(id, u), !.connections[id] = p,
                       !.abnormalRun[p] = 0]
  IN  ensureKeepalive(connect(B2, p))

managerSend(B, id) ==
  IF B.connections[id] # Null THEN connSend(B, B.connections[id]) ELSE B

\* Variant: disconnect() empties the registry.
managerDisconnect_clearsRegistry(B, id, code, reason) ==
  IF B.connections[id] # Null
  THEN checkKeepalive([close(B, B.connections[id], code, reason)
                         EXCEPT !.connections = [i \in Ids |-> Null]])
  ELSE B

managerDisconnect(B, id, code, reason) ==
  IF B.connections[id] # Null
  THEN checkKeepalive([close(B, B.connections[id], code, reason)
                         EXCEPT !.connections[id] = Null])
  ELSE B

\* Variant: destroyByPort() does not compare conn.port with the Port given.
destroyByPort_everyPort(B, p) ==
  LET hit == {i \in Ids : B.connections[i] # Null}
      RECURSIVE DestroyAll(_, _)
      DestroyAll(C, n) == IF n = 0 THEN C
                          ELSE DestroyAll(IF \E i \in hit : C.connections[i] = n
                                          THEN destroy(C, n) ELSE C, n - 1)
      B1  == DestroyAll(B, NClients)
  IN  checkKeepalive([B1 EXCEPT !.connections = [i \in Ids |-> Null]])

destroyByPort(B, p) ==
  LET hit == {i \in Ids : B.connections[i] = p}
      B1  == IF hit # {} THEN destroy(B, p) ELSE B
  IN  checkKeepalive([B1 EXCEPT !.connections =
                        [i \in Ids |-> IF i \in hit THEN Null ELSE @[i]]])

\* Install the background state computed by a handler.
Commit(B) ==
  /\ conn' = B.conn
  /\ ws' = B.ws
  /\ toCS' = B.toCS
  /\ connections' = B.connections
  /\ alarm' = B.alarm
  /\ nClose' = B.nClose
  /\ abnormalRun' = B.abnormalRun


\* ==================================================================== page
\* new AgentWebSocket(url): connectionId = crypto.randomUUID() (here: c).
ClientNew(c, u) ==
  /\ pageAlive /\ readyState[c] = NotConstructed /\ ReqInflight < inflightCap
  /\ readyState' = [readyState EXCEPT ![c] = CONNECTING]
  /\ messageHandler' = [messageHandler EXCEPT ![c] = TRUE]
  /\ url' = [url EXCEPT ![c] = u]
  /\ reqQ' = [reqQ EXCEPT ![c] = Append(@, PageReq(c, OpenReq(u)))]
  /\ sendResult' = "none" /\ callback' = NoCallback
  /\ UNCHANGED <<evQ, pageAlive, csVars, bgVars>>

\* Variant: send() rejects only a CLOSED adapter.
ClientSend_unlessClosed(c) ==
  /\ pageAlive /\ readyState[c] # NotConstructed
  /\ ReqInflight + EvInflight < inflightCap
  /\ IF readyState[c] = CLOSED
     THEN /\ sendResult' = "InvalidStateError"
          /\ UNCHANGED reqQ
     ELSE /\ sendResult' = "posted"
          /\ reqQ' = [reqQ EXCEPT ![c] = Append(@, PageReq(c, SendReq))]
  /\ callback' = NoCallback
  /\ UNCHANGED <<readyState, messageHandler, url, evQ, pageAlive, csVars, bgVars>>

\* AgentWebSocket.send(data)
ClientSend(c) ==
  /\ pageAlive /\ readyState[c] # NotConstructed
  /\ ReqInflight + EvInflight < inflightCap
  /\ IF readyState[c] # OPEN
     THEN /\ sendResult' = "InvalidStateError"
          /\ UNCHANGED reqQ
     ELSE /\ sendResult' = "posted"
          /\ reqQ' = [reqQ EXCEPT ![c] = Append(@, PageReq(c, SendReq))]
  /\ callback' = NoCallback
  /\ UNCHANGED <<readyState, messageHandler, url, evQ, pageAlive, csVars, bgVars>>

\* Variant: close() without the CLOSED / CLOSING test.
ClientClose_unguarded(c, code) ==
  /\ pageAlive /\ readyState[c] # NotConstructed
  /\ ReqInflight < inflightCap
  /\ readyState' = [readyState EXCEPT ![c] = CLOSING]
  /\ reqQ' = [reqQ EXCEPT ![c] =
        Append(@, PageReq(c, CloseReq(IF code = 0 THEN DEFAULT_CLOSE_CODE ELSE code, "")))]
  /\ sendResult' = "none" /\ callback' = NoCallback
  /\ UNCHANGED <<messageHandler, url, evQ, pageAlive, csVars, bgVars>>

\* AgentWebSocket.close(code, reason); code 0 stands for an omitted code.
ClientClose(c, code) ==
  /\ pageAlive /\ readyState[c] # NotConstructed
  /\ IF readyState[c] = CLOSED \/ readyState[c] = CLOSING
     THEN UNCHANGED <<readyState, reqQ>>
     ELSE /\ ReqInflight < inflightCap
          /\ readyState' = [readyState EXCEPT ![c] = CLOSING]
          /\ reqQ' = [reqQ EXCEPT ![c] =
                Append(@, PageReq(c, CloseReq(IF code = 0 THEN DEFAULT_CLOSE_CODE ELSE code, "")))]
  /\ sendResult' = "none" /\ callback' = NoCallback
  /\ UNCHANGED <<messageHandler, url, evQ, pageAlive, csVars, bgVars>>

\* Variant: the close event does not remove the listener.
ClientRecv_keepsListener(c) ==
  /\ pageAlive /\ evQ[c] # <<>>
  /\ LET m == Head(evQ[c]) IN
     /\ evQ' = [evQ EXCEPT ![c] = Tail(@)]
     /\ IF ~messageHandler[c]
        THEN /\ callback' = NoCallback
             /\ UNCHANGED <<readyState, messageHandler>>
        ELSE CASE m.type = "WS_EVENT_OPEN" ->
                    /\ readyState' = [readyState EXCEPT ![c] = OPEN]
                    /\ callback' = Invoked(c, "onopen")
                    /\ UNCHANGED messageHandler
               [] m.type = "WS_EVENT_MESSAGE" ->
                    /\ callback' = Invoked(c, "onmessage")
                    /\ UNCHANGED <<readyState, messageHandler>>
               [] m.type = "WS_EVENT_ERROR" ->
                    /\ callback' = Invoked(c, "onerror")
                    /\ UNCHANGED <<readyState, messageHandler>>
               [] m.type = "WS_EVENT_CLOSE" ->
                    /\ readyState' = [readyState EXCEPT ![c] = CLOSED]
                    /\ UNCHANGED messageHandler
                    /\ callback' = Invoked(c, "onclose")
               [] OTHER ->
                    /\ callback' = NoCallback
                    /\ UNCHANGED <<readyState, messageHandler>>
  /\ sendResult' = "none"
  /\ UNCHANGED <<url, reqQ, pageAlive, csVars, bgVars>>

\* The window "message" listener of adapter c receives the next relayed event.
ClientRecv(c) ==
  /\ pageAlive /\ evQ[c] # <<>>
  /\ LET m == Head(evQ[c]) IN
     /\ evQ' = [evQ EXCEPT ![c] = Tail(@)]
     /\ IF ~messageHandler[c]
        THEN /\ callback' = NoCallback
             /\ UNCHANGED <<readyState, messageHandler>>
        ELSE CASE m.type = "WS_EVENT_OPEN" ->
                    /\ readyState' = [readyState EXCEPT ![c] = OPEN]
                    /\ callback' = Invoked(c, "onopen")
                    /\ UNCHANGED messageHandler
               [] m.type = "WS_EVENT_MESSAGE" ->
                    /\ callback' = Invoked(c, "onmessage")
                    /\ UNCHANGED <<readyState, messageHandler>>
               [] m.type = "WS_EVENT_ERROR" ->
                    /\ callback' = Invoked(c, "onerror")
                    /\ UNCHANGED <<readyState, messageHandler>>
               [] m.type = "WS_EVENT_CLOSE" ->
                    /\ readyState' = [readyState EXCEPT ![c] = CLOSED]
                    /\ messageHandler' = [messageHandler EXCEPT ![c] = FALSE]
                    /\ callback' = Invoked(c, "onclose")
               [] OTHER ->
                    /\ callback' = NoCallback
                    /\ UNCHANGED <<readyState, messageHandler>>
  /\ sendResult' = "none"
  /\ UNCHANGED <<url, reqQ, pageAlive, csVars, bgVars>>

\* The tab is closed or navigates: the page and its content script are gone.
PageUnload ==
  /\ pageAlive
  /\ pageAlive' = FALSE
  /\ readyState' = [c \in Clients |-> NotConstructed]
  /\ messageHandler' = [c \in Clients |-> FALSE]
  /\ url' = [c \in Clients |-> UrlJunk]
  /\ sendResult' = "none" /\ callback' = NoCallback
  /\ reqQ' = [c \in Clients |-> <<>>]
  /\ evQ' = [c \in Clients |-> <<>>]
  /\ csConnections' = [c \in Clients |-> FALSE]
  /\ UNCHANGED <<toBG, bgVars>>

\* ========================================================== content script
\* The Port message the content script makes of a WS_SEND or WS_CLOSE window
\* message: type and payload, without the connectionId.
Forwarded(m) == IF m.type = "WS_SEND" THEN SendReq ELSE CloseReq(m.code, m.reason)

\* window "message" listener: WS_OPEN / WS_SEND / WS_CLOSE from the page.
CsRecv(c) ==
  /\ pageAlive /\ reqQ[c] # <<>>
  /\ LET m == Head(reqQ[c]) IN
     /\ reqQ' = [reqQ EXCEPT ![c] = Tail(@)]
     /\ IF m.type = "WS_OPEN"
        THEN /\ csConnections' = [csConnections EXCEPT ![c] = TRUE]
             /\ portOpen' = [portOpen EXCEPT ![c] = "open"]
             /\ toBG' = [toBG EXCEPT ![c] = Append(@, OpenReq(m.url))]
        ELSE /\ toBG' = [toBG EXCEPT ![c] = IF csConnections[c] THEN Append(@, Forwarded(m))
                                                ELSE @]
             /\ UNCHANGED <<csConnections, portOpen>>
  /\ sendResult' = "none" /\ callback' = NoCallback
  /\ UNCHANGED <<readyState, messageHandler, url, evQ, pageAlive, toCS,
                 activeConnectionId, connections, alarm, conn, ws, now, faults, inflightCap, restarts,
                 nClose, abnormalRun>>

\* Variant: the relay passes on the newest queued event first.
CsRelay_newestFirst(c) ==
  /\ pageAlive /\ toCS[c] # <<>>
  /\ evQ' = [evQ EXCEPT ![c] = Append(@, toCS[c][Len(toCS[c])])]
  /\ toCS' = [toCS EXCEPT ![c] = SubSeq(@, 1, Len(@) - 1)]
  /\ sendResult' = "none" /\ callback' = NoCallback
  /\ UNCHANGED <<readyState, messageHandler, url, reqQ, pageAlive, csVars,
                 portOpen, activeConnectionId, connections, alarm, conn, ws, now,
                 faults, inflightCap, restarts, nClose, abnormalRun>>

\* port.onMessage listener: relay a background event to the page.
CsRelay(c) ==
  /\ pageAlive /\ toCS[c] # <<>>
  /\ evQ' = [evQ EXCEPT ![c] = Append(@, Head(toCS[c]))]
  /\ toCS' = [toCS EXCEPT ![c] = Tail(@)]
  /\ sendResult' = "none" /\ callback' = NoCallback
  /\ UNCHANGED <<readyState, messageHandler, url, reqQ, pageAlive, csVars,
                 portOpen, activeConnectionId, connections, alarm, conn, ws, now,
                 faults, inflightCap, restarts, nClose, abnormalRun>>

\* Variant: port.onDisconnect posts the close event but keeps the binding.
CsPortDisconnect_keepsBinding(c) ==
  /\ pageAlive /\ csConnections[c] /\ portOpen[c] = "closed" /\ toCS[c] = <<>>
  /\ EvInflight < inflightCap
  /\ evQ' = [evQ EXCEPT ![c] =
        Append(@, EvClose(ABNORMAL_CLOSE_CODE, "Extension port disconnected", FALSE))]
  /\ toBG' = [toBG EXCEPT ![c] = <<>>]
  /\ sendResult' = "none" /\ callback' = NoCallback
  /\ UNCHANGED <<readyState, messageHandler, url, reqQ, pageAlive, csConnections, bgVars>>

\* port.onDisconnect listener of the content script: the background end of
\* the Port of connection id c is gone while the page lives.
CsPortDisconnect(c) ==
  /\ pageAlive /\ csConnections[c] /\ portOpen[c] = "closed" /\ toCS[c] = <<>>
  /\ EvInflight < inflightCap
  /\ csConnections' = [csConnections EXCEPT ![c] = FALSE]
  /\ evQ' = [evQ EXCEPT ![c] =
        Append(@, EvClose(ABNORMAL_CLOSE_CODE, "Extension port disconnected", FALSE))]
  /\ toBG' = [toBG EXCEPT ![c] = <<>>]
  /\ sendResult' = "none" /\ callback' = NoCallback
  /\ UNCHANGED <<readyState, messageHandler, url, reqQ, pageAlive, bgVars>>

\* ============================================================== background
BgOpen(p, m) ==
  IF ~isAllowedUrl(m.url)
  THEN /\ toCS' = [toCS EXCEPT ![p] = Append(@, EvError("URL not allowed"))]
       /\ UNCHANGED <<activeConnectionId, connections, alarm, conn, ws, now,
                      nClose, abnormalRun>>
  ELSE \E t \in now..MaxNow :
         LET id == IF m.connectionId # Null THEN m.connectionId ELSE t
         IN  /\ now' = t
             /\ activeConnectionId' = [activeConnectionId EXCEPT ![p] = id]
             /\ Commit(managerConnect(BgState, id, m.url, p))

\* Variant: a WS_SEND whose id the registry does not hold is answered with an
\* error event.
BgSend_errorWhenAbsent(p, m) ==
  /\ IF activeConnectionId[p] # Null /\ connections[activeConnectionId[p]] # Null
     THEN Commit(managerSend(BgState, activeConnectionId[p]))
     ELSE Commit([BgState EXCEPT !.toCS[p] = Append(@, EvError("No active connection"))])
  /\ UNCHANGED <<activeConnectionId, now>>

BgSend(p, m) ==
  /\ IF activeConnectionId[p] # Null
     THEN Commit(managerSend(BgState, activeConnectionId[p]))
     ELSE Commit([BgState EXCEPT !.toCS[p] = Append(@, EvError("No active connection"))])
  /\ UNCHANGED <<activeConnectionId, now>>

BgClose(p, m) ==
  /\ IF activeConnectionId[p] # Null
     THEN Commit(managerDisconnect(BgState, activeConnectionId[p],
                   IF m.code = 0 THEN DEFAULT_CLOSE_CODE ELSE m.code, m.reason))
     ELSE Commit(BgState)
  /\ activeConnectionId' = [activeConnectionId EXCEPT ![p] = Null]
  /\ UNCHANGED now

\* port.onMessage listener of the background.
BgRecv(p) ==
  /\ portOpen[p] = "open" /\ toBG[p] # <<>>
  /\ LET m == Head(toBG[p]) IN
     /\ toBG' = [toBG EXCEPT ![p] = Tail(@)]
     /\ CASE m.type = "WS_OPEN" -> BgOpen(p, m)
          [] m.type = "WS_SEND" -> BgSend(p, m)
          [] OTHER -> BgClose(p, m)
  /\ sendResult' = "none" /\ callback' = NoCallback
  /\ UNCHANGED <<pageVars, csConnections, portOpen, faults, inflightCap, restarts>>

\* port.onDisconnect listener of the background (the page side is gone).
BgPortDisconnect(p) ==
  /\ ~pageAlive /\ portOpen[p] = "open"
  /\ portOpen' = [portOpen EXCEPT ![p] = "closed"]
  /\ toBG' = [toBG EXCEPT ![p] = <<>>]
  /\ Commit([destroyByPort(BgState, p) EXCEPT !.toCS[p] = <<>>])
  /\ activeConnectionId' = [activeConnectionId EXCEPT ![p] = Null]
  /\ sendResult' = "none" /\ callback' = NoCallback
  /\ UNCHANGED <<pageVars, csConnections, now, faults, inflightCap, restarts>>

\* chrome.alarms.onAlarm listener.
OnAlarm ==
  /\ alarm
  /\ alarm' = (Size(BgState) # 0)
  /\ sendResult' = "none" /\ callback' = NoCallback
  /\ UNCHANGED <<pageVars, csVars, toCS, portOpen, activeConnectionId, connections,
                 conn, ws, now, faults, inflightCap, restarts, nClose, abnormalRun>>

\* ------------------------------------------------- browser WebSocket events
WsOpen(k) ==
  /\ ws[k].rs = "CONNECTING" /\ EvInflight < inflightCap
  /\ Commit(onopen([BgState EXCEPT !.ws[k].rs = "OPEN"], k))
  /\ sendResult' = "none" /\ callback' = NoCallback
  /\ UNCHANGED <<pageVars, csVars, portOpen, activeConnectionId, now, faults, inflightCap, restarts>>

WsMessage(k) ==
  /\ ws[k].rs = "OPEN" /\ EvInflight < inflightCap
  /\ Commit(onmessage(BgState, k))
  /\ sendResult' = "none" /\ callback' = NoCallback
  /\ UNCHANGED <<pageVars, csVars, portOpen, activeConnectionId, now, faults, inflightCap, restarts>>

\* The connection fails (network fault) or is aborted by close() while
\* connecting: the browser fires error, then close.
WsError(k) ==
  /\ EvInflight < inflightCap
  /\ \/ ws[k].rs \in {"CONNECTING", "OPEN"} /\ faults > 0 /\ faults' = faults - 1
     \/ ws[k].rs = "ABORTING" /\ faults' = faults
  /\ Commit(onerror([BgState EXCEPT !.ws[k] = [rs |-> "FAILED", code |-> ABNORMAL_CLOSE_CODE]], k))
  /\ UNCHANGED <<inflightCap, restarts>>
  /\ sendResult' = "none" /\ callback' = NoCallback
  /\ UNCHANGED <<pageVars, csVars, portOpen, activeConnectionId, now>>

WsClose(k) ==
  /\ EvInflight < inflightCap
  /\ ws[k].rs \in {"OPEN", "CLOSING", "FAILED"}
  /\ \E wasClean \in BOOLEAN :
       /\ ws[k].rs = "OPEN" => wasClean
       /\ ws[k].rs = "FAILED" => ~wasClean
       /\ LET code == IF ~wasClean THEN ABNORMAL_CLOSE_CODE
                      ELSE IF ws[k].rs = "OPEN" THEN DEFAULT_CLOSE_CODE ELSE ws[k].code
          IN Commit(onclose([BgState EXCEPT !.ws[k] = [rs |-> "CLOSED", code |-> code]],
                            k, code, wasClean))
  /\ sendResult' = "none" /\ callback' = NoCallback
  /\ UNCHANGED <<pageVars, csVars, portOpen, activeConnectionId, now, faults, inflightCap, restarts>>

\* Variant: the timer callback does not reset reconnectTimer.
TimerFire_keepsTimer(k) ==
  /\ conn[k].reconnectTimer /\ EvInflight < inflightCap
  /\ Commit(connect(BgState, k))
  /\ sendResult' = "none" /\ callback' = NoCallback
  /\ UNCHANGED <<pageVars, csVars, portOpen, activeConnectionId, now, faults, inflightCap, restarts>>

\* The setTimeout callback of reconnect().
TimerFire(k) ==
  /\ conn[k].reconnectTimer /\ EvInflight < inflightCap
  /\ Commit(connect(clearReconnectTimer(BgState, k), k))
  /\ sendResult' = "none" /\ callback' = NoCallback
  /\ UNCHANGED <<pageVars, csVars, portOpen, activeConnectionId, now, faults, inflightCap, restarts>>

\* The browser terminates the service worker: every Port to it disconnects,
\* the manager, its Connections and their sockets are gone (a later instance
\* starts from the module's initial state), and messages not yet delivered
\* to it are lost.  Events it had posted may or may not reach the content
\* script.  Alarms outlive the worker.
WorkerTerminated ==
  /\ restarts > 0 /\ \E p \in Clients : portOpen[p] = "open"
  /\ restarts' = restarts - 1
  /\ portOpen' = [p \in Clients |-> IF portOpen[p] = "open" THEN "closed" ELSE portOpen[p]]
  /\ toBG' = [p \in Clients |-> <<>>]
  /\ \E lost \in BOOLEAN : toCS' = IF lost THEN [p \in Clients |-> <<>>] ELSE toCS
  /\ activeConnectionId' = [p \in Clients |-> Null]
  /\ connections' = [i \in Ids |-> Null]
  /\ conn' = [p \in Clients |-> NoConn]
  /\ ws' = [p \in Clients |-> NoSocket]
  /\ abnormalRun' = [p \in Clients |-> 0]
  /\ sendResult' = "none" /\ callback' = NoCallback
  /\ UNCHANGED <<pageVars, csConnections, alarm, now, faults, inflightCap, nClose>>

\* =========================================================== specification
InitCommon ==
  /\ readyState = [c \in Clients |-> NotConstructed]
  /\ messageHandler = [c \in Clients |-> FALSE]
  /\ url = [c \in Clients |-> UrlJunk]
  /\ sendResult = "none"
  /\ callback = NoCallback
  /\ reqQ = [c \in Clients |-> <<>>]
  /\ evQ = [c \in Clients |-> <<>>]
  /\ pageAlive = TRUE
  /\ csConnections = [c \in Clients |-> FALSE]
  /\ toBG = [c \in Clients |-> <<>>]
  /\ toCS = [c \in Clients |-> <<>>]
  /\ portOpen = [c \in Clients |-> "none"]
  /\ activeConnectionId = [c \in Clients |-> Null]
  /\ connections = [i \in Ids |-> Null]
  /\ alarm = FALSE
  /\ conn = [c \in Clients |-> NoConn]
  /\ ws = [c \in Clients |-> NoSocket]
  /\ now = 0
  /\ nClose = [c \in Clients |-> 0]
  /\ abnormalRun = [c \in Clients |-> 0]

Init == InitCommon /\ faults = MaxFaults /\ inflightCap = MaxInflight /\ restarts = 0

Step(c, urls, codes) ==
  \/ \E u \in urls : ClientNew(c, u)
  \/ ClientSend(c)
  \/ \E code \in codes : ClientClose(c, code)
  \/ ClientRecv(c)
  \/ CsRecv(c)
  \/ CsRelay(c)
  \/ BgRecv(c)
  \/ BgPortDisconnect(c)
  \/ WsOpen(c)
  \/ WsMessage(c)
  \/ WsError(c)
  \/ WsClose(c)
  \/ TimerFire(c)

\* Two adapters on one page; each opens an allowed or a forbidden URL and
\* closes with the default code.
Next == (\E c \in Clients : Step(c, {UrlChat, UrlEvil}, {0})) \/ PageUnload \/ OnAlarm

Spec == Init /\ [][Next]_vars

\* One adapter, and a network that may fail often enough to exhaust the
\* reconnect budget.
InitOne == InitCommon /\ faults = MAX_RECONNECT_ATTEMPTS + 1 /\ inflightCap = MaxInflight
             /\ restarts = 0
NextOne == Step(1, Urls, CloseCodes) \/ PageUnload \/ OnAlarm
SpecOne == InitOne /\ [][NextOne]_vars

\* One adapter, with one more message under way at a time, so that events
\* queue up behind one another on both hops.
InitRelay == InitCommon /\ faults = MaxFaults /\ inflightCap = MaxInflight + 1
               /\ restarts = 0
SpecRelay == InitRelay /\ [][NextOne]_vars

\* Two adapters, and a service worker that the browser may terminate.
InitWorker == InitCommon /\ faults = MaxFaults /\ inflightCap = MaxInflight
              /\ restarts = MaxRestarts
NextWorker ==
  \/ \E c \in Clients : Step(c, {UrlChat}, {0}) \/ CsPortDisconnect(c)
  \/ PageUnload \/ OnAlarm \/ WorkerTerminated
SpecWorker == InitWorker /\ [][NextWorker]_vars

\* One adapter as in SpecOne, where no listener leaves a delivered message
\* unhandled for ever: the content script's window and Port listeners, the
\* background's Port listener and the adapter's window listener.
SpecOneLive ==
  SpecOne /\ \A c \in Clients : /\ WF_vars(CsRecv(c)) /\ WF_vars(BgRecv(c))
                                /\ WF_vars(CsRelay(c)) /\ WF_vars(ClientRecv(c))

\* ================================================================== claims
Live(k) == conn[k].socket \/ conn[k].reconnectTimer \/ conn[k].heartbeatTimer
TransportAlive(k) == ws[k].rs \in {"CONNECTING", "OPEN"}
\* The background handles the next request of Port p in this step.
Handles(p) == /\ portOpen[p] = "open" /\ portOpen'[p] = "open"
              /\ toBG[p] # <<>> /\ toBG'[p] = Tail(toBG[p])
Posts(k) == Len(toCS'[k]) > Len(toCS[k])
\* The host of u is not one the allow-list names.
OffList(u) == u.hostname \notin {"localhost", "127.0.0.1"}

\* C1 (as stated): after exactly MAX_RECONNECT_ATTEMPTS consecutive abnormal
\* closes the Connection is CLOSED and has no reconnect scheduled.
C1_ClosedAfterMaxAbnormalCloses ==
  \A k \in Clients :
    abnormalRun[k] = MAX_RECONNECT_ATTEMPTS
      => conn[k].status = "CLOSED" /\ ~conn[k].reconnectTimer

\* C1 (amended): the Connection gives up on abnormal close number
\* MAX_RECONNECT_ATTEMPTS + 1 (the first drop plus MAX_RECONNECT_ATTEMPTS failed
\* reconnects): that step posts exactly one close event (1006, not clean, reason
\* naming the ceiling), leaves it CLOSED with no socket and no reconnect timer,
\* and it stays so; after any smaller number of consecutive abnormal closes a
\* Connection that may still reconnect is RECONNECTING or CONNECTING.
C1_ClosedAfterMaxPlusOneAbnormalCloses ==
  [][\A k \in Clients :
       /\ (abnormalRun[k] = MAX_RECONNECT_ATTEMPTS /\
           abnormalRun'[k] = MAX_RECONNECT_ATTEMPTS + 1)
            => /\ toCS'[k] = Append(toCS[k],
                     EvClose(ABNORMAL_CLOSE_CODE, "Max reconnect attempts reached", FALSE))
               /\ nClose'[k] = nClose[k] + 1
       /\ abnormalRun'[k] = MAX_RECONNECT_ATTEMPTS + 1
            => /\ conn'[k].status = "CLOSED"
               /\ ~conn'[k].reconnectTimer /\ ~conn'[k].socket
               /\ ~TransportAlive(k)'
       /\ (abnormalRun'[k] \in 1..MAX_RECONNECT_ATTEMPTS /\ conn'[k].shouldReconnect)
            => conn'[k].status \in {"RECONNECTING", "CONNECTING"}
       /\ abnormalRun'[k] <= MAX_RECONNECT_ATTEMPTS + 1]_vars

C1_Witness == abnormalRun[1] = MAX_RECONNECT_ATTEMPTS + 1

\* C2: once close() or destroy() has cleared shouldReconnect the Connection
\* is CLOSED for good, with no reconnect timer, no heartbeat timer, no socket
\* and no transport that may still open; and handling a WS_CLOSE request
\* clears shouldReconnect of the Connection it addresses, whatever the
\* transport reported before.
C2_UserCloseSuppressesReconnect ==
  [][\A k \in Clients :
       /\ ~conn[k].shouldReconnect => ~conn'[k].shouldReconnect
       /\ ~conn'[k].shouldReconnect
            => /\ conn'[k].status = "CLOSED"
               /\ ~conn'[k].reconnectTimer /\ ~conn'[k].heartbeatTimer
               /\ ~conn'[k].socket /\ ~TransportAlive(k)'
       /\ (Handles(k) /\ Head(toBG[k]).type = "WS_CLOSE" /\ conn[k].status # "NONE")
            => ~conn'[k].shouldReconnect]_vars

\* A close request reached a Connection that was reconnecting.
C2_Witness ==
  /\ pageAlive /\ ~conn[1].shouldReconnect
  /\ conn[1].reconnectAttempts > 0 /\ nClose[1] = 1

\* C3: the background posts at most one close event per Connection.
C3_ExactlyOneCloseEvent == \A k \in Clients : nClose[k] <= 1

\* C4: once a close event has been posted on a Port, no further event is
\* posted on it.
C4_CloseIsLastEvent == [][\A k \in Clients : nClose[k] >= 1 => ~Posts(k)]_vars

\* C5: after destroyByPort(p) the registry holds no entry bound to p and no
\* event is posted on p any more; the step leaves every Connection and
\* registry entry of the other Ports as they were.
C5_DestroyByPortRemovesChannel ==
  /\ [](\A p \in Clients : portOpen[p] = "closed"
           => (\A i \in Ids : connections[i] # p) /\ toCS[p] = <<>>)
  /\ [][\A p \in Clients : (portOpen[p] = "open" /\ portOpen'[p] = "closed")
          => \A q \in Clients \ {p} :
               /\ conn'[q] = conn[q] /\ ws'[q] = ws[q]
               /\ \A i \in Ids : connections[i] = q => connections'[i] = q]_vars

\* Port 1 was torn down while Port 2 keeps its open Connection.
C5_Witness ==
  /\ portOpen[1] = "closed" /\ conn[1].status = "CLOSED"
  /\ portOpen[2] = "open" /\ conn[2].status = "OPEN" /\ connections[conn[2].id] = 2

C7_RejectedOpenCreatesNothing ==
  [][\A c \in Clients : (readyState[c] # NotConstructed /\ OffList(url[c]))
       => /\ conn'[c] = NoConn /\ ws'[c] = NoSocket
          /\ activeConnectionId'[c] = Null
          /\ \A i \in Ids : connections'[i] # c
          /\ (Handles(c) /\ Head(toBG[c]).type = "WS_OPEN") => Posts(c)
          /\ Posts(c)
               => /\ Handles(c) /\ Head(toBG[c]).type = "WS_OPEN"
                  /\ toCS'[c] = Append(toCS[c], EvError("URL not allowed"))
                  /\ connections' = connections /\ alarm' = alarm
                  /\ conn' = conn /\ ws' = ws]_vars

\* The rejection has been answered and relayed; nothing else is under way.
C7_Witness ==
  /\ readyState[1] = CONNECTING /\ OffList(url[1]) /\ portOpen[1] = "open"
  /\ reqQ[1] = <<>> /\ toBG[1] = <<>> /\ toCS[1] = <<>> /\ evQ[1] = <<>>

\* C8: no two Connection objects registered under the same id are live (hold
\* a socket or a timer) at once, and a registry entry names an object of
\* that id.
C8_OneLiveConnectionPerId ==
  /\ \A a, b \in Clients :
       (a # b /\ conn[a].id # Null /\ conn[a].id = conn[b].id) => ~(Live(a) /\ Live(b))
  /\ \A i \in Ids : connections[i] # Null => conn[connections[i]].id = i

\* An open request reused the id of Connection 1, which is destroyed, and
\* Connection 2 serves the id.
C8_Witness ==
  /\ conn[1].id # Null /\ conn[1].id = conn[2].id
  /\ conn[1].status = "CLOSED" /\ Live(2)

\* C9: a request handled on Port p changes no other Port's Connection, socket
\* or event queue.
C9_NoCrossTalk ==
  [][\A p \in Clients : Handles(p)
       => \A k \in Clients \ {p} :
            conn'[k] = conn[k] /\ ws'[k] = ws[k] /\ toCS'[k] = toCS[k]]_vars

\* C10: send() on an adapter that is not OPEN throws InvalidStateError, posts
\* nothing and changes nothing of the adapter; every WS_SEND posted comes
\* from an adapter that is OPEN.
C10_SendWhileNotOpenFails ==
  [][\A c \in Clients :
       /\ (ClientSend(c) /\ readyState[c] # OPEN)
            => /\ sendResult' = "InvalidStateError"
               /\ UNCHANGED <<readyState, messageHandler, reqQ, evQ, toBG, toCS>>
       /\ (Len(reqQ'[c]) > Len(reqQ[c]) /\ reqQ'[c][Len(reqQ'[c])].type = "WS_SEND")
            => readyState[c] = OPEN /\ sendResult' = "posted"]_vars

C10_Witness == sendResult = "InvalidStateError" /\ readyState[1] = CLOSING

\* The step appends a request of type t to the window messages of adapter c.
PostsRequest(c, t) ==
  /\ Len(reqQ'[c]) > Len(reqQ[c])
  /\ reqQ'[c][Len(reqQ'[c])].type = t

\* C11: close() on an adapter that is CLOSING or CLOSED changes nothing and
\* posts no WS_CLOSE; an adapter that has received its close event stays
\* CLOSED and its onclose callback is not invoked again, even when a second
\* close event arrives.
C11_ClientCloseIdempotent ==
  [][\A c \in Clients :
       /\ readyState[c] \in {CLOSING, CLOSED}
            => /\ ~PostsRequest(c, "WS_CLOSE")
               /\ \A code \in CloseCodes :
                    ClientClose(c, code) => UNCHANGED <<readyState, messageHandler, reqQ, evQ>>
       /\ readyState[c] = CLOSED
            => /\ callback' # Invoked(c, "onclose")
               /\ readyState'[c] \in {CLOSED, NotConstructed}]_vars

\* A second close event reaches an adapter that is already CLOSED.
C11_Witness ==
  /\ readyState[1] = CLOSED /\ evQ[1] # <<>>
  /\ Head(evQ[1]).type = "WS_EVENT_CLOSE"

\* C12: the reconnect attempt counter of every Connection is between 0 and
\* maxReconnect; after more consecutive abnormal closes than maxReconnect the
\* Connection is CLOSED, with no reconnect timer, no socket and no transport
\* that may still open.
C12_AttemptsWithinBudget ==
  \A k \in Clients :
    /\ conn[k].reconnectAttempts \in 0..conn[k].maxReconnect
    /\ abnormalRun[k] > conn[k].maxReconnect
         => /\ conn[k].status = "CLOSED"
            /\ ~conn[k].reconnectTimer /\ ~conn[k].socket /\ ~TransportAlive(k)

\* The budget is used up and the Connection gave up by itself.
C12_Witness ==
  /\ conn[1].reconnectAttempts = conn[1].maxReconnect
  /\ conn[1].shouldReconnect /\ conn[1].status = "CLOSED"

\* C13: a Connection holds a heartbeat timer exactly while its status is OPEN.
C13_HeartbeatIffOpen ==
  \A k \in Clients : conn[k].heartbeatTimer <=> conn[k].status = "OPEN"

\* Connection 1 is OPEN with its heartbeat; Connection 2 was OPEN and was
\* closed on request (its socket is still closing).
C13_Witness ==
  /\ conn[1].status = "OPEN" /\ conn[1].heartbeatTimer
  /\ conn[2].status = "CLOSED" /\ ws[2].rs = "CLOSING" /\ ~conn[2].heartbeatTimer

\* C14: the keepalive alarm exists exactly while the registry is non-empty.
C14_KeepaliveIffRegistryNonEmpty == alarm <=> Size(BgState) > 0

\* Both Connections were registered, and the registry is empty again.
C14_Witness ==
  /\ conn[1].id # Null /\ conn[2].id # Null
  /\ Size(BgState) = 0 /\ ~alarm /\ pageAlive

\* C15: a Connection that gave up after more than maxReconnect consecutive
\* abnormal closes is removed from the registry (and so does not keep the
\* keepalive alarm alive).
C15_ExhaustedConnectionLeavesRegistry ==
  \A k \in Clients :
    abnormalRun[k] > conn[k].maxReconnect => \A i \in Ids : connections[i] # k

\* Adapter c takes the next relayed event off its window messages.
Receives(c) == pageAlive /\ pageAlive' /\ evQ[c] # <<>> /\ evQ'[c] = Tail(evQ[c])

\* The callback slot that matches an event type.
MatchingCallback(t) ==
  CASE t = "WS_EVENT_OPEN" -> "onopen"
    [] t = "WS_EVENT_MESSAGE" -> "onmessage"
    [] t = "WS_EVENT_ERROR" -> "onerror"
    [] t = "WS_EVENT_CLOSE" -> "onclose"
    [] t = "WS_EVENT_RECONNECTING" -> "onreconnecting"
    [] t = "WS_EVENT_RECONNECTED" -> "onreconnected"
    [] OTHER -> "none"

\* C16: every event that reaches an adapter which has not yet seen its close
\* event invokes the callback matching the event's type, and a reconnected
\* event leaves the adapter OPEN as an open event does.
C16_EveryEventInvokesItsCallback ==
  [][\A c \in Clients : (Receives(c) /\ messageHandler[c])
       => /\ callback' = Invoked(c, MatchingCallback(Head(evQ[c]).type))
          /\ Head(evQ[c]).type = "WS_EVENT_RECONNECTED" => readyState'[c] = OPEN]_vars

\* C17: while the page and the Port of adapter c exist, the events of its
\* Connection travel first-in first-out over both hops: the background only
\* appends to the Port's queue, the content script takes the oldest event off
\* it and appends exactly that event to the adapter's window messages, and
\* the adapter takes the oldest message off those; nothing else changes
\* either queue.
C17_EventsKeepTheirOrder ==
  [][\A c \in Clients : (pageAlive /\ pageAlive' /\ portOpen[c] = "open")
       => /\ \/ IsPrefix(toCS[c], toCS'[c]) /\ evQ'[c] = evQ[c]
             \/ /\ toCS[c] # <<>> /\ toCS'[c] = Tail(toCS[c])
                /\ evQ'[c] = Append(evQ[c], Head(toCS[c]))
             \/ toCS'[c] = toCS[c] /\ evQ[c] # <<>> /\ evQ'[c] = Tail(evQ[c])
          /\ (Receives(c) /\ messageHandler[c]
                /\ Head(evQ[c]).type \in {"WS_EVENT_OPEN", "WS_EVENT_MESSAGE",
                                          "WS_EVENT_ERROR", "WS_EVENT_CLOSE"})
               => callback' = Invoked(c, MatchingCallback(Head(evQ[c]).type))]_vars

\* Two different events of the Connection wait in the adapter's window
\* messages, the older one first.
C17_Witness ==
  /\ Len(evQ[1]) = 2
  /\ evQ[1][1].type = "WS_EVENT_OPEN" /\ evQ[1][2].type = "WS_EVENT_MESSAGE"

\* C18 (as stated): with the allow-list ["http://localhost"] alone, the URL
\* ws://localhost:8080/chat that an adapter was given passes the test that
\* isAllowedUrl applies to each entry of the list.
C18_WsUrlAllowedByHttpEntry ==
  \A c \in Clients :
    (readyState[c] # NotConstructed /\ url[c] = UrlChat)
      => originAllowed(Origin(url[c]), <<"http:", "//", "localhost">>)

\* C18 (amended): a WS_OPEN is accepted exactly when its URL parses and its
\* scheme and host, whatever the port, are those of a configured origin
\* (http or ws, localhost or 127.0.0.1).  Accepted: a Connection for that URL
\* is created and registered and a socket is connecting (unless the WebSocket
\* constructor threw).  Rejected: no Connection, one error event.
C18_AllowListDecidesOpen ==
  [][\A c \in Clients : (Handles(c) /\ Head(toBG[c]).type = "WS_OPEN")
       => LET u == Head(toBG[c]).url
              accepted == /\ u.parses
                          /\ u.protocol \in {"http:", "ws:"}
                          /\ u.hostname \in {"localhost", "127.0.0.1"}
          IN  /\ accepted
                   => /\ conn'[c].id # Null /\ conn'[c].url = u
                      /\ connections'[conn'[c].id] = c
                      /\ activeConnectionId'[c] = conn'[c].id
                      /\ IF ConstructorThrows(u)
                         THEN ws'[c] = NoSocket
                         ELSE ws'[c].rs = "CONNECTING" /\ conn'[c].socket
              /\ ~accepted
                   => /\ conn'[c] = NoConn /\ ws'[c] = NoSocket
                      /\ toCS'[c] = Append(toCS[c], EvError("URL not allowed"))]_vars

\* ws://localhost:8080/chat was accepted and its socket is connecting.
C18_Witness ==
  /\ conn[1].url = UrlChat /\ conn[1].status = "CONNECTING"
  /\ ws[1].rs = "CONNECTING" /\ connections[conn[1].id] = 1

\* The step posts an event of type t on Port k.
PostsEvent(k, t) == Posts(k) /\ toCS'[k][Len(toCS'[k])].type = t

\* C19: the reconnecting event posted for the Nth consecutive abnormal close
\* carries attempt N, maxAttempts 10 and the delay min(1000 * 2^N, 30000):
\* 2000, 4000, 8000, 16000, then 30000 for every later attempt.
C19_ReconnectDelaySequence ==
  [][\A k \in Clients : PostsEvent(k, "WS_EVENT_RECONNECTING")
       => LET m == toCS'[k][Len(toCS'[k])]
              n == abnormalRun'[k]
          IN  /\ m.attempt = n /\ n \in 1..MAX_RECONNECT_ATTEMPTS
              /\ m.maxAttempts = MAX_RECONNECT_ATTEMPTS
              /\ m.delay = (IF n <= 6 THEN <<2000, 4000, 8000, 16000, 30000, 30000>>[n]
                             ELSE 30000)
              /\ m.delay = (IF 1000 * 2^n <= 30000 THEN 1000 * 2^n ELSE 30000)]_vars

\* The fifth attempt in a row is announced with the capped delay.
C19_Witness ==
  /\ toCS[1] # <<>> /\ Head(toCS[1]).type = "WS_EVENT_RECONNECTING"
  /\ Head(toCS[1]).attempt = 5 /\ Head(toCS[1]).delay = 30000

\* C20: when the socket reports open the Connection becomes OPEN with attempt
\* counter 0 and posts exactly one event, reconnected if the counter was
\* above 0 and open otherwise; and the close event that names the ceiling is
\* posted only after maxReconnect + 1 abnormal closes in a row, whatever the
\* number of failures before the last open.
C20_OpenResetsAttempts ==
  [][\A k \in Clients :
       /\ (ws[k].rs = "CONNECTING" /\ ws'[k].rs = "OPEN")
            => /\ conn'[k].status = "OPEN" /\ conn'[k].reconnectAttempts = 0
               /\ toCS'[k] = Append(toCS[k], IF conn[k].reconnectAttempts > 0
                                              THEN EvReconnected ELSE EvOpen)
       /\ (PostsEvent(k, "WS_EVENT_CLOSE")
             /\ toCS'[k][Len(toCS'[k])].reason = "Max reconnect attempts reached")
            => abnormalRun'[k] = conn[k].maxReconnect + 1]_vars

\* Every fault the network had in store has happened, more than maxReconnect
\* in total, and the Connection has just reconnected.
C20_Witness ==
  /\ faults = 0 /\ conn[1].status = "OPEN" /\ conn[1].reconnectAttempts = 0
  /\ toCS[1] # <<>> /\ Head(toCS[1]).type = "WS_EVENT_RECONNECTED"

\* The browser WebSocket of Connection k reports its close in this step.
TransportCloses(k) == ws[k].rs # "CLOSED" /\ ws'[k].rs = "CLOSED"
\* ... and reports it as not clean (the close code of such a close is 1006).
ClosesAbnormally(k) == TransportCloses(k) /\ ws'[k].code = ABNORMAL_CLOSE_CODE

\* C21: when the socket of a Connection that may reconnect and has attempts
\* left reports a close that is not clean, the Connection drops the socket
\* and the heartbeat, adds one to the attempt counter, becomes RECONNECTING
\* with a reconnect timer and posts exactly one reconnecting event that
\* carries the new counter, its delay and maxReconnect (attempt 1, delay 2000
\* from a counter of 0); and when that timer fires the Connection is
\* CONNECTING with a new socket that is connecting.
C21_AbnormalCloseStartsReconnect ==
  [][\A k \in Clients :
       /\ (ClosesAbnormally(k) /\ conn[k].shouldReconnect
             /\ conn[k].reconnectAttempts < conn[k].maxReconnect)
            => LET a == conn[k].reconnectAttempts + 1
                   d == IF 1000 * 2^a <= 30000 THEN 1000 * 2^a ELSE 30000
               IN  /\ ~conn'[k].heartbeatTimer /\ ~conn'[k].socket
                   /\ conn'[k].reconnectAttempts = a
                   /\ conn'[k].status = "RECONNECTING" /\ conn'[k].reconnectTimer
                   /\ toCS'[k] = Append(toCS[k], EvReconnecting(a, d, conn[k].maxReconnect))
                   /\ conn[k].reconnectAttempts = 0
                        => toCS'[k][Len(toCS'[k])].attempt = 1
                           /\ toCS'[k][Len(toCS'[k])].delay = 2000
       /\ (conn[k].reconnectTimer /\ ~conn'[k].reconnectTimer /\ conn'[k].shouldReconnect)
            => /\ conn[k].status = "RECONNECTING" /\ conn'[k].status = "CONNECTING"
               /\ conn'[k].socket /\ ws'[k].rs = "CONNECTING"
               /\ conn'[k].reconnectAttempts = conn[k].reconnectAttempts]_vars

\* A Connection that was OPEN (its adapter saw the open event) lost its socket
\* for the first time: the event for attempt 1 is on the Port and the timer
\* is pending.
C21_Witness ==
  /\ conn[1].status = "RECONNECTING" /\ conn[1].reconnectTimer
  /\ toCS[1] = <<EvReconnecting(1, 2000, MAX_RECONNECT_ATTEMPTS)>>
  /\ nClose[1] = 0 /\ abnormalRun[1] = 1 /\ readyState[1] = OPEN

\* C22: when a socket reports a clean close, or any close while
\* shouldReconnect is false, no reconnection starts: the Connection is CLOSED
\* with no socket, no heartbeat and no reconnect timer, its attempt counter
\* is unchanged, no transport is connecting, and the close event posted on
\* its Port (if the Port still exists) carries the code and wasClean that the
\* socket reported.
C22_CleanOrUserCloseEndsConnection ==
  [][\A k \in Clients :
       (TransportCloses(k) /\ (~ClosesAbnormally(k) \/ ~conn[k].shouldReconnect))
         => /\ conn'[k].status = "CLOSED"
            /\ ~conn'[k].heartbeatTimer /\ ~conn'[k].reconnectTimer /\ ~conn'[k].socket
            /\ conn'[k].reconnectAttempts = conn[k].reconnectAttempts
            /\ ~TransportAlive(k)'
            /\ toCS'[k] = IF portOpen[k] = "open"
                          THEN Append(toCS[k], EvClose(ws'[k].code, "", ~ClosesAbnormally(k)))
                          ELSE toCS[k]]_vars

\* The server closed an OPEN Connection cleanly: it is CLOSED although it
\* was allowed to reconnect, and the close event carries the server's code.
C22_Witness ==
  /\ conn[1].status = "CLOSED" /\ conn[1].shouldReconnect /\ ws[1].rs = "CLOSED"
  /\ toCS[1] = <<EvClose(DEFAULT_CLOSE_CODE, "", TRUE)>>
  /\ ~conn[1].reconnectTimer /\ readyState[1] = OPEN

\* destroy() has run on Connection k: shouldReconnect is cleared and no close
\* event was posted for it (close() posts one in the step that clears the
\* flag).
Destroyed(k) == conn[k].status = "CLOSED" /\ ~conn[k].shouldReconnect /\ nClose[k] = 0

\* C23: a Connection on which destroy() has run posts no event on its Port,
\* neither in the step that destroys it nor in any later step.
C23_DestroyedConnectionStaysSilent ==
  [][\A k \in Clients : (Destroyed(k) \/ Destroyed(k)') => ~Posts(k)]_vars

BridgeTakes(c) == pageAlive /\ pageAlive' /\ reqQ[c] # <<>> /\ reqQ'[c] = Tail(reqQ[c])
\* The close event of c's Connection has passed through the content script.
BridgeSawClose(c) == nClose[c] >= 1 /\ toCS[c] = <<>>

\* C25: the content script forwards a WS_SEND or WS_CLOSE to the background
\* only for a connection id that is bound to a Port and whose Connection has
\* not been closed; any other such request is dropped (nothing is forwarded).
C25_BridgeDropsRequestsOfClosedIds ==
  [][\A c \in Clients :
       (BridgeTakes(c) /\ Head(reqQ[c]).type \in {"WS_SEND", "WS_CLOSE"})
         => IF csConnections[c] /\ ~BridgeSawClose(c)
            THEN toBG'[c] = Append(toBG[c], Forwarded(Head(reqQ[c])))
            ELSE toBG'[c] = toBG[c]]_vars

\* The event the content script makes up when a Port disconnects.
PortGoneClose == EvClose(ABNORMAL_CLOSE_CODE, "Extension port disconnected", FALSE)

\* C26: when the Port of a bound connection id disconnects while the page
\* lives, the content script discards that binding and posts to the page
\* exactly one close event for the id, with code 1006 and wasClean false; the
\* step leaves the bindings and window messages of every other id as they
\* were; a binding is discarded in no other way while the page lives, and
\* every other message the page receives for an id was relayed from its Port.
C26_PortLossSynthesizesClose ==
  [][\A c \in Clients : pageAlive'
       => /\ (csConnections[c] /\ ~csConnections'[c])
               => /\ portOpen[c] = "closed"
                  /\ evQ'[c] = Append(evQ[c], PortGoneClose)
                  /\ PortGoneClose.code = 1006 /\ ~PortGoneClose.wasClean
                  /\ \A d \in Clients \ {c} :
                       csConnections'[d] = csConnections[d] /\ evQ'[d] = evQ[d]
          /\ Len(evQ'[c]) > Len(evQ[c])
               => \/ csConnections[c] /\ ~csConnections'[c]
                  \/ /\ toCS[c] # <<>> /\ evQ'[c] = Append(evQ[c], Head(toCS[c]))
                     /\ csConnections'[c] = csConnections[c]
          /\ (~csConnections[c] /\ portOpen[c] = "closed") => ~csConnections'[c]]_vars

\* The service worker is gone; the binding of id 1 has been discarded and its
\* close event posted, the binding of id 2 is still in place.
C26_Witness ==
  /\ pageAlive /\ portOpen[1] = "closed" /\ portOpen[2] = "closed"
  /\ ~csConnections[1] /\ csConnections[2]
  /\ evQ[1] = <<PortGoneClose>> /\ evQ[2] = <<>>

\* C27: a WS_OPEN reaches the background as the page posted it, so every
\* registry entry that names the Connection of adapter c is keyed by the
\* connectionId that adapter c generated.
C27_RegisteredUnderClientId ==
  /\ [][\A c \in Clients : (BridgeTakes(c) /\ Head(reqQ[c]).type = "WS_OPEN")
          => toBG'[c] = Append(toBG[c], Head(reqQ[c]))]_vars
  /\ [](\A c \in Clients : \A i \in Ids : connections[i] = c => i = Uuid(c))

\* The id that Port p remembers is not in the registry.
AddressesAbsentId(p) ==
  activeConnectionId[p] # Null /\ connections[activeConnectionId[p]] = Null

TransportErrors(k) == ws[k].rs \in {"CONNECTING", "OPEN"} /\ ws'[k].rs = "FAILED"

\* C29: when the socket of a CONNECTING or OPEN Connection reports an error,
\* the Connection posts exactly one error event on its Port and nothing else
\* of the background changes: every Connection record (status, attempt
\* counter, shouldReconnect, timers, socket reference), the registry, the
\* alarm and the remembered ids stay as they are.  An adapter that receives an
\* error event calls onerror and keeps its readyState, its listener and its
\* window messages.
C29_ErrorChangesNoState ==
  [][/\ \A k \in Clients :
          (TransportErrors(k) /\ conn[k].status \in {"CONNECTING", "OPEN"})
            => /\ toCS'[k] = Append(toCS[k], EvError("WebSocket error occurred"))
               /\ \A j \in Clients \ {k} : toCS'[j] = toCS[j]
               /\ conn' = conn /\ connections' = connections
               /\ alarm' = alarm /\ activeConnectionId' = activeConnectionId
               /\ nClose' = nClose /\ abnormalRun' = abnormalRun
     /\ \A c \in Clients :
          (Receives(c) /\ Head(evQ[c]).type = "WS_EVENT_ERROR")
            => /\ readyState' = readyState /\ messageHandler' = messageHandler
               /\ reqQ' = reqQ /\ url' = url
               /\ messageHandler[c] => callback' = Invoked(c, "onerror")]_vars

\* The socket of an OPEN Connection reported an error: the event is on the
\* Port, the Connection is still OPEN with its heartbeat, and the socket's
\* close has not been reported yet.
C29_Witness ==
  /\ ws[1].rs = "FAILED" /\ conn[1].status = "OPEN" /\ conn[1].heartbeatTimer
  /\ conn[1].socket /\ conn[1].shouldReconnect
  /\ toCS[1] = <<EvError("WebSocket error occurred")>> /\ readyState[1] = OPEN

\* The step leaves Connection j, its socket and its registry entries alone.
Untouched(j) ==
  /\ conn'[j] = conn[j] /\ ws'[j] = ws[j]
  /\ \A i \in Ids : (connections'[i] = j) <=> (connections[i] = j)
\* The connection id that the request handled on Port p is about: the id
\* given to the new Connection by a WS_OPEN (none if it is rejected), the id
\* the Port remembers for a WS_SEND or WS_CLOSE.
AddressedId(p) ==
  IF Head(toBG[p]).type = "WS_OPEN" THEN activeConnectionId'[p] ELSE activeConnectionId[p]

\* C30: a request handled on a Port leaves every Connection whose id differs
\* from the id the request is about untouched (status, attempt counter,
\* socket, timers, registry entry); and in a step that is an event of a socket
\* or of a reconnect timer, any two Connections that change have the same id.
C30_ConnectionsAreIndependent ==
  [][/\ \A p \in Clients : Handles(p)
          => \A j \in Clients :
               (conn[j].id # Null /\ conn[j].id # AddressedId(p)) => Untouched(j)
     /\ (portOpen' = portOpen /\ \A p \in Clients : ~Handles(p))
          => \A j, k \in Clients :
               (~Untouched(j) /\ ~Untouched(k)) => conn'[j].id = conn'[k].id]_vars

\* Two Connections with different ids: the first lost its socket and is
\* waiting to reconnect, the second is OPEN and registered as before.
C30_Witness ==
  /\ conn[1].id # Null /\ conn[2].id # Null /\ conn[1].id # conn[2].id
  /\ conn[1].status = "RECONNECTING" /\ conn[1].reconnectTimer
  /\ conn[2].status = "OPEN" /\ conn[2].heartbeatTimer /\ ws[2].rs = "OPEN"
  /\ connections[conn[2].id] = 2

\* C31: the readyState of an adapter only moves forward along CONNECTING,
\* OPEN, CLOSING, CLOSED: no step lowers it, so an adapter that is CLOSING or
\* CLOSED never becomes OPEN again.
C31_ReadyStateOnlyAdvances ==
  [][\A c \in Clients :
       (readyState[c] # NotConstructed /\ readyState'[c] # NotConstructed)
         => readyState'[c] >= readyState[c]]_vars

\* C32: whenever the Connection of an adapter is OPEN while the page lives,
\* the adapter's readyState becomes OPEN, unless the adapter closes, the page
\* goes away or the Connection leaves OPEN first.
C32_OpenConnectionOpensAdapter ==
  \A c \in Clients :
    (conn[c].status = "OPEN" /\ pageAlive /\ readyState[c] = CONNECTING)
      ~> (readyState[c] # CONNECTING \/ ~pageAlive \/ conn[c].status # "OPEN")

\* C33: the step in which an adapter handles its close event calls onclose,
\* sets CLOSED and removes the listener; from then on the listener stays
\* removed, the adapter stays CLOSED, and no callback of that adapter is
\* invoked, whatever events still arrive for it.
C33_NoCallbackAfterClose ==
  [][\A c \in Clients :
       /\ (Receives(c) /\ messageHandler[c] /\ Head(evQ[c]).type = "WS_EVENT_CLOSE")
            => /\ callback' = Invoked(c, "onclose")
               /\ readyState'[c] = CLOSED /\ ~messageHandler'[c]
       /\ readyState[c] = CLOSED
            => /\ callback'.client # c
               /\ ~messageHandler'[c]
               /\ readyState'[c] \in {CLOSED, NotConstructed}]_vars

\* An error of the aborted socket arrives at an adapter that has already
\* handled its close event.
C33_Witness ==
  /\ readyState[1] = CLOSED /\ ~messageHandler[1]
  /\ evQ[1] # <<>> /\ Head(evQ[1]).type = "WS_EVENT_ERROR"

\* C34: an adapter that has called close() (readyState CLOSING) eventually
\* handles a close event and is CLOSED, unless the page or its Port goes
\* away first.
C34_CloseEventuallyCloses ==
  \A c \in Clients :
    (readyState[c] = CLOSING /\ pageAlive)
      ~> (readyState[c] = CLOSED \/ ~pageAlive \/ portOpen[c] = "closed")

\* C35: the Connections of two different Ports never have the same id, and a
\* WS_OPEN handled on one Port leaves the Connection of every other Port and
\* its registry entry untouched.
C35_DistinctIdsPerChannel ==
  /\ [](\A a, b \in Clients :
          (a # b /\ conn[a].id # Null /\ conn[b].id # Null) => conn[a].id # conn[b].id)
  /\ [][\A p \in Clients : (Handles(p) /\ Head(toBG[p]).type = "WS_OPEN")
          => \A q \in Clients \ {p} : Untouched(q)]_vars

\* C36: a Connection has a pending reconnect timer only while its status is
\* RECONNECTING, it may reconnect and its Port is connected.  A Connection
\* whose Port is disconnected has been destroyed before (shouldReconnect is
\* false), so reconnect() never posts on a disconnected Port and no destroyed
\* Connection holds a timer.
C36_TimerOnlyWhileReconnecting ==
  \A k \in Clients :
    /\ conn[k].reconnectTimer
         => /\ conn[k].status = "RECONNECTING" /\ conn[k].shouldReconnect
            /\ portOpen[k] = "open" /\ ~conn[k].socket
    /\ (portOpen[k] = "closed" /\ conn[k].status # "NONE")
         => ~conn[k].shouldReconnect /\ conn[k].status = "CLOSED"

\* The Port went away while the Connection was waiting for its second retry:
\* it was destroyed, and its timer with it.
C36_Witness ==
  /\ portOpen[1] = "closed" /\ conn[1].status = "CLOSED" /\ ~conn[1].reconnectTimer
  /\ conn[1].reconnectAttempts = 2 /\ ws[1].rs = "CLOSED" /\ nClose[1] = 0

\* C37: a Connection whose status is CONNECTING or OPEN holds a socket.
C37_ConnectingOrOpenHoldsSocket ==
  \A k \in Clients : conn[k].status \in {"CONNECTING", "OPEN"} => conn[k].socket

=============================================================================
